---- MODULE Spec2Model ----
(***************************************************************************)
(* Engineering Metrics Dashboard (src/app.py).                             *)
(*                                                                         *)
(* main validates the submitted form and calls build_metrics, which runs   *)
(* search_prs_created and search_reviews for every user and assembles the  *)
(* result tables.  The hosting API is a collaborator: what it answers (the *)
(* search hits, the pull requests, their reviews and the GithubExceptions  *)
(* it raises) is input, fixed in the initial state as canned responses.    *)
(*                                                                         *)
(* Strings that the code takes apart (raw_users, logins) are sequences of  *)
(* one-character strings.  An optional value (None or a value) is the      *)
(* empty set or a singleton.  A datetime is a number of day parts since    *)
(* day 0; a date is a day number.                                          *)
(***************************************************************************)
EXTENDS Integers, Sequences, FiniteSets, TLC

VARIABLES
    pc,             \* position in main / build_metrics / the two queries
    form,           \* the submitted sidebar form
    gh,             \* the hosting API's canned responses
    calls,          \* number of search queries issued, per kind
    start_date, end_date, users,                 \* main's locals
    ui, rows, pr_events, review_events, pr_list, review_list,   \* build_metrics
    results,        \* created_stats / reviews_data of each finished iteration
    it, pos,        \* the search result being iterated and the hits yielded
    cur, rpos,      \* the current hit and the reviews of it yielded
    created_count, merged_count, additions, deletions,
    created_dates, merged_dates, pr_details,     \* search_prs_created
    count, review_dates, review_details,
    idx, counted_prs,                            \* search_reviews
    recorded,       \* which review each entry of review_details came from
    obs             \* what the current search_reviews call has done so far

vars == <<pc, form, gh, calls, start_date, end_date, users, ui, rows,
          pr_events, review_events, pr_list, review_list, results, it, pos,
          cur, rpos, created_count, merged_count, additions, deletions,
          created_dates, merged_dates, pr_details, count, review_dates,
          review_details, idx, counted_prs, recorded, obs>>

----------------------------------------------------------------------------
(* Bounds of the model.                                                    *)

MaxRaw == 3         \* longest raw_users text of the form scenarios
DayParts == 2       \* datetimes per day

(* Program constant: the cap on processed pull requests per pass.          *)
max_items == 200

----------------------------------------------------------------------------
(* Optional values, dates, strings.                                        *)

None == {}
Some(v) == {v}
Get(o) == CHOOSE v \in o : TRUE

\* datetime.date(): the day a datetime falls on
DateOf(dt) == dt \div DayParts

\* str.lower() on one character
LowerChar(c) == CASE c = "A" -> "a" [] c = "B" -> "b" [] OTHER -> c

\* str.lower()
Lower(s) == [i \in 1..Len(s) |-> LowerChar(s[i])]

\* str.isspace(), for the characters of the model
IsSpace(c) == c \in {" ", "\n"}

\* str.strip(): drop leading and trailing whitespace
RECURSIVE LStrip(_)
LStrip(s) == IF s # <<>> /\ IsSpace(Head(s)) THEN LStrip(Tail(s)) ELSE s

RECURSIVE RStrip(_)
RStrip(s) ==
    IF s # <<>> /\ IsSpace(s[Len(s)])
    THEN RStrip(SubSeq(s, 1, Len(s) - 1))
    ELSE s

Strip(s) == LStrip(RStrip(s))

\* str.split(","): the pieces between commas, empty pieces kept
RECURSIVE Split(_, _)
Split(s, piece) ==
    IF s = <<>> THEN <<piece>>
    ELSE IF Head(s) = "," THEN <<piece>> \o Split(Tail(s), <<>>)
    ELSE Split(Tail(s), Append(piece, Head(s)))

\* Python truthiness of a str
Truthy(s) == s # <<>>

RECURSIVE KeepStripped(_)
KeepStripped(pieces) ==
    IF pieces = <<>> THEN <<>>
    ELSE IF Truthy(Strip(Head(pieces)))
         THEN <<Strip(Head(pieces))>> \o KeepStripped(Tail(pieces))
         ELSE KeepStripped(Tail(pieces))

\* users = [u.strip() for u in raw_users.split(",") if u.strip()]
ParseUsers(raw) == KeepStripped(Split(raw, <<>>))

----------------------------------------------------------------------------
(* IEEE 754 binary64 arithmetic, as far as build_metrics uses it.          *)
(* A positive float is [m |-> bits, e |-> exponent]: bits is the 53-bit    *)
(* significand, most significant bit first, and the value is the integer   *)
(* bits denotes times 2^e.                                                 *)

Precision == 53

Zeros(n) == [i \in 1..n |-> 0]

\* arithmetic on bit sequences goes Chunk bits at a time, in machine ints
Chunk == 12

Min(x, y) == IF x < y THEN x ELSE y

\* the integer a bit sequence of at most Chunk bits denotes
RECURSIVE BitsToNat(_)
BitsToNat(b) ==
    IF b = <<>> THEN 0
    ELSE 2 * BitsToNat(SubSeq(b, 1, Len(b) - 1)) + b[Len(b)]

\* the k-bit sequence that denotes v < 2^k
NatToBits(v, k) == [i \in 1..k |-> (v \div (2 ^ (k - i))) % 2]

RECURSIVE StripZeros(_)
StripZeros(b) == IF b # <<>> /\ Head(b) = 0 THEN StripZeros(Tail(b)) ELSE b

\* a + b + c for bit sequences a, b of one length and a carry c; the result
\* is one bit longer
RECURSIVE AddCarry(_, _, _)
AddCarry(a, b, c) ==
    IF a = <<>> THEN <<c>>
    ELSE LET n == Len(a)
             k == Min(n, Chunk)
             s == BitsToNat(SubSeq(a, n - k + 1, n))
                  + BitsToNat(SubSeq(b, n - k + 1, n)) + c
         IN  AddCarry(SubSeq(a, 1, n - k), SubSeq(b, 1, n - k), s \div (2 ^ k))
             \o NatToBits(s % (2 ^ k), k)

AddBits(a, b) == AddCarry(a, b, 0)

\* b + 1
Increment(b) == AddBits(b, Append(Zeros(Len(b) - 1), 1))

\* b * 2^k
ShiftLeft(b, k) == b \o Zeros(k)

PadLeft(b, n) == Zeros(n - Len(b)) \o b

\* the sum of two bit sequences of any lengths, without leading zeros
Sum(a, b) ==
    LET n == IF Len(a) > Len(b) THEN Len(a) ELSE Len(b)
    IN  StripZeros(AddBits(PadLeft(a, n), PadLeft(b, n)))

\* round-to-nearest, ties-to-even, of the exact value bits * 2^e (bits with a
\* leading 1) to a float
RoundToFloat(bits, e) ==
    LET n == Len(bits)
    IN  IF n <= Precision
        THEN [m |-> bits \o Zeros(Precision - n), e |-> e - (Precision - n)]
        ELSE LET kept == SubSeq(bits, 1, Precision)
                 rest == SubSeq(bits, Precision + 1, n)
                 half == <<1>> \o Zeros(n - Precision - 1)
                 up == \/ (rest[1] = 1 /\ rest # half)
                       \/ (rest = half /\ kept[Precision] = 1)
                 inc == Increment(kept)
             IN  IF ~up THEN [m |-> kept, e |-> e + (n - Precision)]
                 ELSE IF inc[1] = 1
                      THEN [m |-> SubSeq(inc, 1, Precision),
                            e |-> e + (n - Precision) + 1]
                      ELSE [m |-> Tail(inc), e |-> e + (n - Precision)]

\* the next k bits of r / d (0 <= r < d) and the remainder they leave
RECURSIVE QuotientBits(_, _, _)
QuotientBits(r, d, k) ==
    IF k = 0 THEN [bits |-> <<>>, rem |-> r]
    ELSE LET c == Min(k, Chunk)
             q == QuotientBits((r * (2 ^ c)) % d, d, k - c)
         IN  [bits |-> NatToBits((r * (2 ^ c)) \div d, c) \o q.bits,
              rem |-> q.rem]

\* n, d and e with d <= n < 2d and the same value (n / d) * 2^e
RECURSIVE Normalise(_, _, _)
Normalise(n, d, e) ==
    IF n < d THEN Normalise(2 * n, d, e - 1)
    ELSE IF n >= 2 * d THEN Normalise(n, 2 * d, e + 1)
    ELSE [n |-> n, d |-> d, e |-> e]

\* int / int for positive ints: the float nearest to the exact quotient
TrueDiv(a, b) ==
    LET nz == Normalise(a, b, 0)
        q == QuotientBits(nz.n - nz.d, nz.d, Precision)
        \* one guard bit in q, then a sticky bit for the rest
        sticky == IF q.rem = 0 THEN 0 ELSE 1
    IN  RoundToFloat(<<1>> \o q.bits \o <<sticky>>, nz.e - Precision - 1)

\* float * 100  (100 = 64 + 32 + 4)
Times100(x) ==
    RoundToFloat(Sum(Sum(ShiftLeft(x.m, 6), ShiftLeft(x.m, 5)),
                     ShiftLeft(x.m, 2)), x.e)

\* the integer a bit sequence denotes
RECURSIVE WholeOf(_)
WholeOf(b) ==
    IF Len(b) <= Chunk THEN BitsToNat(b)
    ELSE WholeOf(SubSeq(b, 1, Len(b) - Chunk)) * (2 ^ Chunk)
         + BitsToNat(SubSeq(b, Len(b) - Chunk + 1, Len(b)))

\* round(x, 1) for a float 0 < x < 2^52, in tenths: the tenth nearest to the
\* exact value of x, the even one when x is exactly halfway
RoundTenths(x) ==
    LET p == Sum(ShiftLeft(x.m, 3), ShiftLeft(x.m, 1))    \* x.m * 10
        f == 0 - x.e                                      \* fraction bits
        q == IF Len(p) > f THEN p ELSE PadLeft(p, f + 1)
        whole == WholeOf(SubSeq(q, 1, Len(q) - f))
        frac == SubSeq(q, Len(q) - f + 1, Len(q))
        half == <<1>> \o Zeros(f - 1)
    IN  IF frac[1] = 1 /\ frac # half THEN whole + 1
        ELSE IF frac = half /\ whole % 2 = 1 THEN whole + 1
        ELSE whole

\* a ratio cut to one decimal instead of rounded
TruncatedRatio(prs_merged, prs_created) ==
    IF prs_created = 0 THEN 0 ELSE (1000 * prs_merged) \div prs_created

\* build_metrics: round(merge_ratio, 1) in tenths, where
\* merge_ratio = (prs_merged / prs_created) * 100 if prs_created else 0
MergeRatio(prs_merged, prs_created) ==
    IF prs_created = 0 THEN 0
    ELSE IF prs_merged = 0 THEN 0
    ELSE RoundTenths(Times100(TrueDiv(prs_merged, prs_created)))


----------------------------------------------------------------------------
(* The inputs: forms and canned API responses.                             *)
(*                                                                         *)
(* A search response is [hits, raise_at]: iterating it yields the hits in  *)
(* order and raises GithubException instead of yielding hit k + 1 when     *)
(* raise_at = Some(k) (a failed page fetch).  A pull request's review list *)
(* is [reviews, raise_at] in the same way.                                 *)

MaxHits == 2        \* longest enumerated search response
MaxCreated == 16    \* most pull requests of the merge-ratio scenarios

At(day, part) == day * DayParts + part

WithIds(hits, base) == [i \in 1..Len(hits) |-> [hits[i] EXCEPT !.id = base + i]]

RaiseOptions(n) == {None} \cup {Some(k) : k \in 0..n}

Response(hits, base, raise_at) ==
    [hits |-> WithIds(hits, base), raise_at |-> raise_at]

NoHits == [hits |-> <<>>, raise_at |-> None]

\* search hits of search_prs_created
PrHit(fail, merged, created_at, merged_at, adds, dels) ==
    [id |-> 0, fail |-> fail, merged |-> merged, created_at |-> created_at,
     merged_at |-> merged_at, additions |-> adds, deletions |-> dels,
     state |-> IF merged THEN "closed" ELSE "open"]

PrFailures == {"as_pull_request", "is_merged", "additions", "deletions",
               "details"}

PrKinds ==
    {PrHit("none", TRUE, Some(At(1, 0)), ma, Some(5), Some(3)) :
        ma \in {None, Some(At(2, 0))}}
    \cup {PrHit("none", FALSE, c, None, a, Some(3)) :
            c \in {None, Some(At(1, 0))}, a \in {None, Some(5)}}
    \cup {PrHit(f, TRUE, Some(At(1, 0)), Some(At(2, 0)), Some(5), Some(3)) :
            f \in PrFailures}
    \cup {PrHit("none", TRUE, None, Some(At(2, 0)), Some(5), Some(3))}

\* C pull requests, the first M of them merged
PrRun(C, M) ==
    [hits |-> [i \in 1..C |->
                 [PrHit("none", i <= M, Some(At(1, 0)),
                        IF i <= M THEN Some(At(2, 0)) ELSE None,
                        Some(i), Some(1)) EXCEPT !.id = i]],
     raise_at |-> None]

\* reviews and the hits of the two searches of search_reviews
Review(user, submitted_at) ==
    [user |-> user, submitted_at |-> submitted_at, state |-> "APPROVED"]

Reviewer == <<"A", "b">>     \* the login of the user <<"a", "B">>, as the API spells it
Stranger == <<"a">>

ReviewKinds ==
    {Review(Some(Reviewer), t) :
        t \in {None, Some(At(0, DayParts - 1)), Some(At(2, DayParts - 1)),
               Some(At(3, 0))}}
    \cup {Review(Some(Stranger), Some(At(1, 0))), Review(None, Some(At(1, 0)))}

RevHit(conv, reviews, raise_at) ==
    [id |-> 0, conv |-> conv, reviews |-> reviews, raise_at |-> raise_at]

TwoReviews == <<Review(Some(Reviewer), Some(At(1, 0))),
                Review(Some(Reviewer), Some(At(1, 0)))>>

RevKinds ==
    {RevHit(FALSE, <<>>, None), RevHit(TRUE, <<>>, None)}
    \cup {RevHit(TRUE, <<r>>, None) : r \in ReviewKinds}
    \cup {RevHit(TRUE, TwoReviews, ra) : ra \in {None, Some(1)}}

\* n pull requests, each with one review by login
RevRun(n, login) ==
    [hits |-> [i \in 1..n |->
                 [RevHit(TRUE, <<Review(Some(login), Some(At(1, 0)))>>, None)
                    EXCEPT !.id = i]],
     raise_at |-> None]

Form(token, org, raw, sel, analyze) ==
    [token |-> token, org |-> org, raw_users |-> raw, date_selection |-> sel,
     analyze |-> analyze]

\* what st.sidebar.date_input returns: a tuple of dates, or one date
Range(s, e) == [tuple |-> TRUE, dates |-> <<s, e>>]

DateSelections ==
    {Range(1, 2), Range(2, 2), Range(2, 1),
     [tuple |-> TRUE, dates |-> <<1>>], [tuple |-> TRUE, dates |-> <<>>],
     [tuple |-> FALSE, dates |-> <<1>>]}

RawChars == {"a", "B", ",", " ", "\n"}

TheForm == Form(<<"t">>, <<"o">>, <<"a", "B">>, Range(1, 2), TRUE)

Api(author, reviewed, updated) ==
    [author |-> author, reviewed |-> reviewed, updated |-> updated]

SmallApi ==
    Api(<<[hits |-> WithIds(<<PrHit("none", TRUE, Some(At(1, 0)),
                                    Some(At(2, 0)), Some(5), Some(3)),
                              PrHit("none", FALSE, Some(At(1, 0)), None,
                                    Some(5), Some(3))>>, 0),
           raise_at |-> None],
          NoHits>>,
        <<[hits |-> WithIds(<<RevHit(TRUE,
                                <<Review(Some(<<"A">>), Some(At(2, 0))),
                                  Review(Some(<<"A">>), Some(At(2, DayParts - 1))),
                                  Review(Some(<<"b">>), Some(At(2, 0)))>>,
                                None)>>, 0),
           raise_at |-> None]>>,
        <<[hits |-> WithIds(<<RevHit(TRUE,
                                <<Review(Some(<<"b">>), Some(At(2, 0)))>>,
                                None)>>, 10),
           raise_at |-> None]>>)

\* the fallback search finds what the primary search found, and one more
SupersetOf(r) ==
    [hits |-> r.hits \o WithIds(<<RevHit(TRUE, TwoReviews, None)>>, 10),
     raise_at |-> None]

\* C pull requests of which M are merged
RatioCases ==
    {<<80, 23>>} \cup {x \in (0..MaxCreated) \X (0..MaxCreated) : x[2] <= x[1]}

\* searches with more hits than the cap
CapCases ==
    {RevRun(max_items + 1, Reviewer), RevRun(max_items + 2, Stranger),
     [RevRun(max_items, Reviewer) EXCEPT !.raise_at = Some(max_items)]}

----------------------------------------------------------------------------
(* Initial state: the form is filled in, nothing has run.                  *)

FreshObs ==
    [primary |-> "none", primary_count |-> 0, fallback |-> FALSE,
     fetched_primary |-> 0, fetched_fallback |-> 0]

Given(f, api) == form = f /\ gh = api

\* every form, against one small API
FormInputs ==
    \E t \in {<<>>, <<"t">>}, o \in {<<>>, <<"o">>}, k \in 0..MaxRaw,
       sel \in DateSelections, an \in BOOLEAN :
        \E raw \in [1..k -> RawChars] :
            Given(Form(t, o, raw, sel, an), SmallApi)

\* one form, against every enumerated response of the pull-request search
PrInputs ==
    \E k \in 0..MaxHits : \E h \in [1..k -> PrKinds], ra \in RaiseOptions(k) :
        Given(TheForm, Api(<<Response(h, 0, ra)>>, <<NoHits>>, <<NoHits>>))

\* one form, against every enumerated response of the primary review search,
\* which the fallback search repeats
PrimaryInputs ==
    \E k \in 0..MaxHits : \E h \in [1..k -> RevKinds], ra \in RaiseOptions(k) :
        Given(TheForm, Api(<<NoHits>>, <<Response(h, 0, ra)>>,
                           <<SupersetOf(Response(h, 0, ra))>>))

\* one form, a primary review search that fails at once, and every
\* enumerated response of the fallback search
FallbackInputs ==
    \E k \in 0..MaxHits : \E h \in [1..k -> RevKinds], ra \in RaiseOptions(k) :
        Given(TheForm, Api(<<NoHits>>, <<Response(<<>>, 0, Some(0))>>,
                           <<Response(h, 10, ra)>>))

\* one form, C pull requests of which M are merged
RatioInputs ==
    \E cm \in RatioCases :
        Given(TheForm, Api(<<PrRun(cm[1], cm[2])>>, <<NoHits>>, <<NoHits>>))

\* one form, review searches with more hits than the cap
CapInputs ==
    \E r \in CapCases :
        Given(TheForm, Api(<<NoHits>>, <<r>>, <<RevRun(max_items + 1, Reviewer)>>))

Init ==
    /\ \/ FormInputs
       \/ PrInputs
       \/ PrimaryInputs
       \/ FallbackInputs
       \/ RatioInputs
       \/ CapInputs
    /\ pc = "form"
    /\ calls = [author |-> 0, reviewed |-> 0, updated |-> 0]
    /\ start_date = None /\ end_date = None /\ users = <<>>
    /\ ui = 0 /\ rows = <<>> /\ pr_events = <<>> /\ review_events = <<>>
    /\ pr_list = <<>> /\ review_list = <<>> /\ results = <<>>
    /\ it = NoHits /\ pos = 0 /\ cur = None /\ rpos = 0
    /\ created_count = 0 /\ merged_count = 0 /\ additions = 0 /\ deletions = 0
    /\ created_dates = <<>> /\ merged_dates = <<>> /\ pr_details = <<>>
    /\ count = 0 /\ review_dates = <<>> /\ review_details = <<>>
    /\ idx = 0 /\ counted_prs = 0 /\ recorded = <<>> /\ obs = FreshObs

\* the answer to the n-th search of one kind
Answer(responses, n) == responses[((n - 1) % Len(responses)) + 1]

mainVars == <<start_date, end_date, users>>
tableVars == <<ui, rows, pr_events, review_events, pr_list, review_list, results>>
prVars == <<created_count, merged_count, additions, deletions, created_dates,
            merged_dates, pr_details>>
reviewVars == <<count, review_dates, review_details, idx, counted_prs,
                recorded, obs>>

----------------------------------------------------------------------------
(* main: the Analyze handler.                                              *)

\* start_date, end_date = date_selection when it is a tuple of two dates;
\* otherwise both are date_selection itself, a date or a shorter tuple
StartIsTuple(sel) == sel.tuple /\ Len(sel.dates) # 2
FirstDate(sel) == sel.dates[1]
LastDate(sel) == IF sel.tuple THEN sel.dates[2] ELSE sel.dates[1]

\* a validation that forgets the check of the parsed user list
RejectionWithoutUserCheck(f) ==
    IF ~Truthy(f.token) \/ ~Truthy(f.org) \/ ~Truthy(f.raw_users)
    THEN "Please provide a token, organization, and at least one user."
    ELSE IF StartIsTuple(f.date_selection)
    THEN "Please select a start and end date."
    ELSE IF FirstDate(f.date_selection) > LastDate(f.date_selection)
    THEN "Start date must be on or before end date."
    ELSE "none"

\* the warning main answers the form with, or "none"
Rejection(f) ==
    IF ~Truthy(f.token) \/ ~Truthy(f.org) \/ ~Truthy(f.raw_users)
    THEN "Please provide a token, organization, and at least one user."
    ELSE IF StartIsTuple(f.date_selection)
    THEN "Please select a start and end date."
    ELSE IF FirstDate(f.date_selection) > LastDate(f.date_selection)
    THEN "Start date must be on or before end date."
    ELSE IF ParseUsers(f.raw_users) = <<>>
    THEN "No valid usernames provided."
    ELSE "none"

\* the button was not pressed: the page shows the form only
Idle ==
    /\ pc = "form"
    /\ ~form.analyze
    /\ pc' = "idle"
    /\ UNCHANGED <<form, gh, calls, mainVars, tableVars, it, pos, cur, rpos,
                   prVars, reviewVars>>

\* the button was pressed: validate, then enter build_metrics
Analyze ==
    /\ pc = "form"
    /\ form.analyze
    /\ IF Rejection(form) # "none"
       THEN /\ pc' = Rejection(form)
            /\ UNCHANGED <<mainVars, ui>>
       ELSE /\ start_date' = Some(FirstDate(form.date_selection))
            /\ end_date' = Some(LastDate(form.date_selection))
            /\ users' = ParseUsers(form.raw_users)
            /\ ui' = 1
            /\ pc' = "for_user"
    /\ UNCHANGED <<form, gh, calls, rows, pr_events, review_events, pr_list,
                   review_list, results, it, pos, cur, rpos, prVars,
                   reviewVars>>

----------------------------------------------------------------------------
(* build_metrics and search_prs_created.                                   *)

user == users[ui]

\* for user in users: call search_prs_created, or leave the loop and return
\* the tables
ForUser ==
    /\ pc = "for_user"
    /\ IF ui > Len(users)
       THEN /\ pc' = "done"
            /\ UNCHANGED <<calls, it, pos, prVars>>
       ELSE /\ created_count' = 0 /\ merged_count' = 0
            /\ additions' = 0 /\ deletions' = 0
            /\ created_dates' = <<>> /\ merged_dates' = <<>>
            /\ pr_details' = <<>>
            /\ calls' = [calls EXCEPT !.author = @ + 1]
            /\ it' = Answer(gh.author, calls.author + 1)
            /\ pos' = 0
            /\ pc' = "pr_for"
    /\ UNCHANGED <<form, gh, mainVars, tableVars, cur, rpos, reviewVars>>

issue == Get(cur)

\* a loop that ends at the first hit that cannot be converted
PrForBreaks ==
    /\ pc = "pr_for"
    /\ IF it.raise_at = Some(pos)
       THEN /\ pc' = "GitHub error"
            /\ UNCHANGED <<pos, cur>>
       ELSE IF pos = Len(it.hits)
       THEN /\ pc' = "rev_start"
            /\ UNCHANGED <<pos, cur>>
       ELSE /\ pos' = pos + 1
            /\ cur' = Some(it.hits[pos + 1])
            /\ pc' = IF it.hits[pos + 1].fail = "as_pull_request"
                     THEN "rev_start" ELSE "pr_count"
    /\ UNCHANGED <<form, gh, calls, mainVars, tableVars, it, rpos, prVars,
                   reviewVars>>

\* for issue in gh.search_issues(...): pr = issue.as_pull_request()
PrFor ==
    /\ pc = "pr_for"
    /\ IF it.raise_at = Some(pos)
       THEN \* not caught in search_prs_created nor build_metrics: main reports it
            /\ pc' = "GitHub error"
            /\ UNCHANGED <<pos, cur>>
       ELSE IF pos = Len(it.hits)
       THEN /\ pc' = "rev_start"
            /\ UNCHANGED <<pos, cur>>
       ELSE /\ pos' = pos + 1
            /\ cur' = Some(it.hits[pos + 1])
            /\ pc' = IF it.hits[pos + 1].fail = "as_pull_request"
                     THEN "pr_for" ELSE "pr_count"
    /\ UNCHANGED <<form, gh, calls, mainVars, tableVars, it, rpos, prVars,
                   reviewVars>>

\* a count that is kept only for hits with a creation date
PrCountIfDated ==
    /\ pc = "pr_count"
    /\ created_count' = IF issue.created_at # None THEN created_count + 1
                        ELSE created_count
    /\ created_dates' = IF issue.created_at # None
                        THEN Append(created_dates, DateOf(Get(issue.created_at)))
                        ELSE created_dates
    /\ pc' = "pr_merge"
    /\ UNCHANGED <<form, gh, calls, mainVars, tableVars, it, pos, cur, rpos,
                   merged_count, additions, deletions, merged_dates,
                   pr_details, reviewVars>>

\* created_count += 1; record the creation date
PrCount ==
    /\ pc = "pr_count"
    /\ created_count' = created_count + 1
    /\ created_dates' = IF issue.created_at # None
                        THEN Append(created_dates, DateOf(Get(issue.created_at)))
                        ELSE created_dates
    /\ pc' = "pr_merge"
    /\ UNCHANGED <<form, gh, calls, mainVars, tableVars, it, pos, cur, rpos,
                   merged_count, additions, deletions, merged_dates,
                   pr_details, reviewVars>>

\* if pr.is_merged(): merged_count += 1; record the merge date
PrMerge ==
    /\ pc = "pr_merge"
    /\ IF issue.fail = "is_merged"
       THEN /\ pc' = "pr_for"
            /\ UNCHANGED <<merged_count, merged_dates>>
       ELSE /\ merged_count' = IF issue.merged THEN merged_count + 1
                               ELSE merged_count
            /\ merged_dates' =
                 IF issue.merged /\ issue.merged_at # None
                 THEN Append(merged_dates, DateOf(Get(issue.merged_at)))
                 ELSE merged_dates
            /\ pc' = "pr_sum"
    /\ UNCHANGED <<form, gh, calls, mainVars, tableVars, it, pos, cur, rpos,
                   created_count, additions, deletions, created_dates,
                   pr_details, reviewVars>>

\* x or 0
OrZero(o) == IF o # None /\ Get(o) # 0 THEN Get(o) ELSE 0

PrDetail(u, pr) ==
    [username |-> u, pr |-> pr.id, created_at |-> pr.created_at,
     merged_at |-> pr.merged_at, state |-> pr.state]

\* additions += ...; deletions += ...; pr_details.append(...)
PrSum ==
    /\ pc = "pr_sum"
    /\ additions' = IF issue.fail = "additions" THEN additions
                    ELSE additions + OrZero(issue.additions)
    /\ deletions' = IF issue.fail \in {"additions", "deletions"} THEN deletions
                    ELSE deletions + OrZero(issue.deletions)
    /\ pr_details' = IF issue.fail \in {"additions", "deletions", "details"}
                     THEN pr_details
                     ELSE Append(pr_details, PrDetail(user, issue))
    /\ pc' = "pr_for"
    /\ UNCHANGED <<form, gh, calls, mainVars, tableVars, it, pos, cur, rpos,
                   created_count, merged_count, created_dates, merged_dates,
                   reviewVars>>

----------------------------------------------------------------------------
(* search_reviews.                                                         *)

\* a cap that lets one more pull request through
CapExceeded(n) == n > max_items

\* the safety cap: idx >= max_items, counted_prs >= max_items
CapReached(n) == n >= max_items

\* a query-level handler that keeps the count
KeepCount(c) == c

\* except GithubException: count = 0
AfterQueryError(c) == 0

\* if count == 0: run the fallback
NoneFound(c) == c = 0

\* a filter that compares the logins as they are spelled
CountsExactCase(review, username, from, to) ==
    /\ review.user # None
    /\ Get(review.user) = username
    /\ review.submitted_at # None
    /\ from <= DateOf(Get(review.submitted_at))
    /\ DateOf(Get(review.submitted_at)) <= to

\* the filter on one review: an author, the user's login whatever the case, a
\* submission time, and its date in [start_date, end_date]
Counts(review, username, from, to) ==
    /\ review.user # None
    /\ Lower(Get(review.user)) = Lower(username)
    /\ review.submitted_at # None
    /\ from <= DateOf(Get(review.submitted_at))
    /\ DateOf(Get(review.submitted_at)) <= to

ReviewDetail(u, pr, review) ==
    [username |-> u, pr |-> pr.id, submitted_at |-> Get(review.submitted_at),
     state |-> review.state]

\* search_reviews is entered: the primary search is issued
RevStart ==
    /\ pc = "rev_start"
    /\ count' = 0 /\ review_dates' = <<>> /\ review_details' = <<>>
    /\ recorded' = <<>> /\ obs' = [FreshObs EXCEPT !.primary = "running"]
    /\ idx' = 0 /\ counted_prs' = 0
    /\ calls' = [calls EXCEPT !.reviewed = @ + 1]
    /\ it' = Answer(gh.reviewed, calls.reviewed + 1)
    /\ pos' = 0
    /\ pc' = "primary_for"
    /\ UNCHANGED <<form, gh, mainVars, tableVars, cur, rpos, prVars>>

\* the primary pass ends with count c, in one of three ways
PrimaryEnds(how, c) ==
    /\ count' = c
    /\ obs' = [obs EXCEPT !.primary = how, !.primary_count = c]
    /\ pc' = "after_primary"
    /\ UNCHANGED <<pos, cur, rpos, idx>>

\* for idx, issue in enumerate(gh.search_issues(...)):
\*     if idx >= max_items: break
\*     pr = issue.as_pull_request(); ... pr.get_reviews()
PrimaryFor ==
    /\ pc = "primary_for"
    /\ IF it.raise_at = Some(pos)
       THEN PrimaryEnds("error", AfterQueryError(count))
       ELSE IF pos = Len(it.hits)
       THEN PrimaryEnds("completed", count)
       ELSE IF CapReached(pos)
       THEN PrimaryEnds("capped", count)
       ELSE /\ idx' = pos
            /\ pos' = pos + 1
            /\ cur' = Some(it.hits[pos + 1])
            /\ rpos' = 0
            /\ IF it.hits[pos + 1].conv
               THEN /\ pc' = "primary_reviews"
                    /\ obs' = [obs EXCEPT !.fetched_primary = @ + 1]
               ELSE /\ pc' = "primary_for"
                    /\ obs' = obs
            /\ count' = count
    /\ UNCHANGED <<form, gh, calls, mainVars, tableVars, it, prVars,
                   review_dates, review_details, counted_prs, recorded>>

\* for review in pr.get_reviews(): one turn of the loop, in the pass named
ScanReview(pass, back) ==
    IF issue.raise_at = Some(rpos) \/ rpos = Len(issue.reviews)
    THEN \* the list is exhausted, or fetching it failed: on to the next hit
         /\ pc' = back
         /\ UNCHANGED <<rpos, count, review_dates, review_details, recorded>>
    ELSE LET review == issue.reviews[rpos + 1]
         IN  /\ rpos' = rpos + 1
             /\ pc' = pc
             /\ IF Counts(review, user, Get(start_date), Get(end_date))
                THEN /\ count' = count + 1
                     /\ review_dates' =
                          Append(review_dates, DateOf(Get(review.submitted_at)))
                     /\ review_details' =
                          Append(review_details, ReviewDetail(user, issue, review))
                     /\ recorded' =
                          Append(recorded,
                                 [pass |-> pass, hit |-> pos, pr |-> issue.id,
                                  rev |-> rpos + 1, review |-> review])
                ELSE UNCHANGED <<count, review_dates, review_details, recorded>>

PrimaryReview ==
    /\ pc = "primary_reviews"
    /\ ScanReview("primary", "primary_for")
    /\ UNCHANGED <<form, gh, calls, mainVars, tableVars, it, pos, cur, prVars,
                   idx, counted_prs, obs>>

\* if count == 0: issue the fallback search; else return
AfterPrimary ==
    /\ pc = "after_primary"
    /\ IF NoneFound(count)
       THEN /\ counted_prs' = 0
            /\ calls' = [calls EXCEPT !.updated = @ + 1]
            /\ it' = Answer(gh.updated, calls.updated + 1)
            /\ pos' = 0
            /\ obs' = [obs EXCEPT !.fallback = TRUE]
            /\ pc' = "fallback_for"
       ELSE /\ pc' = "aggregate"
            /\ UNCHANGED <<counted_prs, calls, it, pos, obs>>
    /\ UNCHANGED <<form, gh, mainVars, tableVars, cur, rpos, prVars, count,
                   review_dates, review_details, idx, recorded>>

\* for issue in gh.search_issues(...):
\*     if counted_prs >= max_items: break
\*     counted_prs += 1; pr = issue.as_pull_request(); ... pr.get_reviews()
FallbackFor ==
    /\ pc = "fallback_for"
    /\ IF \/ it.raise_at = Some(pos)
          \/ pos = Len(it.hits)
          \/ CapReached(counted_prs)
       THEN /\ pc' = "aggregate"
            /\ UNCHANGED <<pos, cur, rpos, counted_prs, obs>>
       ELSE /\ counted_prs' = counted_prs + 1
            /\ pos' = pos + 1
            /\ cur' = Some(it.hits[pos + 1])
            /\ rpos' = 0
            /\ IF it.hits[pos + 1].conv
               THEN /\ pc' = "fallback_reviews"
                    /\ obs' = [obs EXCEPT !.fetched_fallback = @ + 1]
               ELSE /\ pc' = "fallback_for"
                    /\ obs' = obs
    /\ UNCHANGED <<form, gh, calls, mainVars, tableVars, it, prVars, count,
                   review_dates, review_details, idx, recorded>>

FallbackReview ==
    /\ pc = "fallback_reviews"
    /\ ScanReview("fallback", "fallback_for")
    /\ UNCHANGED <<form, gh, calls, mainVars, tableVars, it, pos, cur, prVars,
                   idx, counted_prs, obs>>

----------------------------------------------------------------------------
(* build_metrics: the row and the events of one user.                      *)

Row(u, created_stats, reviews_data) ==
    [username |-> u,
     prs_created |-> created_stats.prs_created,
     prs_merged |-> created_stats.prs_merged,
     merge_ratio |-> MergeRatio(created_stats.prs_merged,
                                created_stats.prs_created),
     reviews |-> reviews_data.count,
     additions |-> created_stats.additions,
     deletions |-> created_stats.deletions]

\* an append that merges the rows of one username
AddRowOnce(table, row) ==
    IF \E i \in 1..Len(table) : table[i].username = row.username
    THEN table
    ELSE Append(table, row)

\* rows.append(row)
AddRow(table, row) == Append(table, row)

\* an append that collapses the events of one user, date and kind
RECURSIVE AddEventsOnce(_, _, _, _)
AddEventsOnce(events, u, dates, kind) ==
    IF dates = <<>> THEN events
    ELSE LET e == [username |-> u, date |-> Head(dates), event |-> kind]
         IN  AddEventsOnce(IF \E i \in 1..Len(events) : events[i] = e
                           THEN events ELSE Append(events, e),
                           u, Tail(dates), kind)

\* for d in dates: events.append({"username": user, "date": d, "event": kind})
AddEvents(events, u, dates, kind) ==
    events \o [i \in 1..Len(dates) |->
                 [username |-> u, date |-> dates[i], event |-> kind]]

\* for d in dates: review_events.append({"username": user, "date": d})
AddReviewEvents(events, u, dates) ==
    events \o [i \in 1..Len(dates) |-> [username |-> u, date |-> dates[i]]]

\* what the two queries returned to build_metrics
CreatedStats ==
    [prs_created |-> created_count, prs_merged |-> merged_count,
     additions |-> additions, deletions |-> deletions,
     created_dates |-> created_dates, merged_dates |-> merged_dates,
     pr_details |-> pr_details]

ReviewsData ==
    [count |-> count, review_dates |-> review_dates,
     review_details |-> review_details]

Aggregate ==
    /\ pc = "aggregate"
    /\ rows' = AddRow(rows, Row(user, CreatedStats, ReviewsData))
    /\ pr_events' = AddEvents(AddEvents(pr_events, user, created_dates, "created"),
                              user, merged_dates, "merged")
    /\ review_events' = AddReviewEvents(review_events, user, review_dates)
    /\ pr_list' = pr_list \o pr_details
    /\ review_list' = review_list \o review_details
    /\ results' = Append(results, [user |-> user, created_stats |-> CreatedStats,
                                   reviews_data |-> ReviewsData])
    /\ ui' = ui + 1
    /\ pc' = "for_user"
    /\ UNCHANGED <<form, gh, calls, mainVars, it, pos, cur, rpos, prVars,
                   reviewVars>>

----------------------------------------------------------------------------

Next ==
    \/ Idle
    \/ Analyze
    \/ ForUser
    \/ PrFor
    \/ PrCount
    \/ PrMerge
    \/ PrSum
    \/ RevStart
    \/ PrimaryFor
    \/ PrimaryReview
    \/ AfterPrimary
    \/ FallbackFor
    \/ FallbackReview
    \/ Aggregate

Spec == Init /\ [][Next]_vars

----------------------------------------------------------------------------
(* Properties.                                                             *)

InReviews == pc \in {"primary_for", "primary_reviews", "after_primary",
                     "fallback_for", "fallback_reviews", "aggregate"}

InPrQuery == pc \in {"pr_for", "pr_count", "pr_merge", "pr_sum", "rev_start"}

Warnings == {"Please provide a token, organization, and at least one user.",
             "Please select a start and end date.",
             "Start date must be on or before end date.",
             "No valid usernames provided."}

Indices(seq) == 1..Len(seq)

Occurrences(seq, x) == Cardinality({i \in Indices(seq) : seq[i] = x})

\* C1: the fallback pass of search_reviews runs if and only if the count with
\* which the primary pass ended is zero, however the primary pass ended; a
\* query-level GithubException in the primary pass ends it with count zero, so
\* the fallback runs after it.
FallbackIffNoneFound ==
    /\ pc \in {"fallback_for", "fallback_reviews"} => obs.fallback
    /\ pc \in {"fallback_for", "fallback_reviews", "aggregate"} =>
         /\ obs.primary \in {"completed", "capped", "error"}
         /\ obs.fallback <=> (obs.primary_count = 0)
         /\ obs.primary = "error" => obs.fallback

\* a query-level error after a review was recorded, and the fallback has run
FallbackAfterErrorReached ==
    /\ pc = "aggregate"
    /\ obs.primary = "error"
    /\ obs.fallback
    /\ \E i \in Indices(recorded) : recorded[i].pass = "primary"

\* the number of hits of a response whose as_pull_request() succeeds
Convertible(response) ==
    Cardinality({i \in Indices(response.hits) :
                    response.hits[i].fail # "as_pull_request"})

\* C2 (as stated): when the search yields N hits, prs_created is N, whichever
\* step of the detail resolution fails for some of them.
CreatedCountsEveryHit ==
    (pc = "rev_start" /\ it.raise_at = None) => created_count = Len(it.hits)

\* C2 (amended): when the search yields N hits, prs_created is the number of
\* them whose as_pull_request() succeeds; a failure of is_merged or of the
\* additions / deletions / detail access leaves the hit counted.
CreatedCountsConvertedHits ==
    (pc = "rev_start" /\ it.raise_at = None) => created_count = Convertible(it)

\* two hits: one fails as_pull_request and is dropped, one fails later and is
\* counted
MixedFailuresReached ==
    /\ pc = "rev_start"
    /\ it.raise_at = None
    /\ Len(it.hits) = 2
    /\ created_count = 1
    /\ \E i, j \in Indices(it.hits) :
          /\ it.hits[i].fail = "as_pull_request"
          /\ it.hits[j].fail \in {"is_merged", "additions", "deletions", "details"}

\* C3: in each pass of search_reviews at most max_items pull requests have
\* their reviews fetched, and no review of a hit after the max_items-th is
\* recorded.
CapHolds ==
    /\ obs.fetched_primary <= max_items
    /\ obs.fetched_fallback <= max_items
    /\ \A i \in Indices(recorded) : recorded[i].hit <= max_items
    /\ InReviews => count <= Len(recorded)

\* both passes met more hits than the cap and stopped at it
BothPassesCappedReached ==
    /\ pc = "aggregate"
    /\ obs.primary = "capped" /\ obs.fetched_primary = max_items
    /\ obs.fallback /\ obs.fetched_fallback = max_items
    /\ Len(it.hits) > max_items
    /\ count = max_items

Abs(x) == IF x < 0 THEN 0 - x ELSE x

\* round(100 * M / C, 1) in tenths, as Python evaluates it: 100 * M is an
\* int, and one division rounds once
RatioOfProduct(M, C) ==
    IF M = 0 THEN 0 ELSE RoundTenths(TrueDiv(100 * M, C))

\* C4 (as stated): every row's merge ratio is 0 when no pull request was
\* created and round(100 * M / C, 1) otherwise, within [0, 100] when M <= C.
RatioIsRoundOfProduct ==
    \A i \in Indices(rows) :
        LET C == rows[i].prs_created
            M == rows[i].prs_merged
        IN  /\ C = 0 => rows[i].merge_ratio = 0
            /\ C > 0 => rows[i].merge_ratio = RatioOfProduct(M, C)
            /\ M <= C => rows[i].merge_ratio \in 0..1000

\* C4 (amended): every row's merge ratio is 0 when no pull request was
\* created; otherwise it is a one-decimal value nearest to 100 * M / C (at
\* most 0.05 from it), within [0, 100] when M <= C.  Ratios are in tenths.
RatioIsNearestTenth ==
    \A i \in Indices(rows) :
        LET C == rows[i].prs_created
            M == rows[i].prs_merged
        IN  /\ C = 0 => rows[i].merge_ratio = 0
            /\ C > 0 => 2 * Abs(rows[i].merge_ratio * C - 1000 * M) <= C
            /\ M <= C => rows[i].merge_ratio \in 0..1000

\* 23 of 80 merged: 28.75 exactly, and the row says 28.7
HalfwayRatioReached ==
    \E i \in Indices(rows) :
        /\ rows[i].prs_created = 80
        /\ rows[i].prs_merged = 23
        /\ rows[i].merge_ratio = 287

\* C5: the metrics table has one row per element of users, in the order of
\* users, the i-th row for the i-th username; a username given k times has k
\* rows.
RowsFollowUsers ==
    /\ Len(rows) <= Len(users)
    /\ \A i \in Indices(rows) : rows[i].username = users[i]
    /\ pc = "done" => Len(rows) = Len(users)
    /\ pc = "for_user" => Len(rows) = ui - 1

\* the same username twice, and the table returned
RepeatedUserReached ==
    /\ pc = "done"
    /\ Len(users) = 2
    /\ users[1] = users[2]
    /\ Len(rows) = 2

QueriesIssued == calls.author + calls.reviewed + calls.updated

\* C6: no search is issued and build_metrics is not entered unless token, org
\* and the raw user text are non-empty, the start date is not after the end
\* date, and the raw user text holds a username (something other than commas
\* and whitespace).
NoQueryUnlessValid ==
    (QueriesIssued > 0 \/ pc \notin ({"form", "idle"} \cup Warnings)) =>
        /\ form.analyze
        /\ form.token # <<>> /\ form.org # <<>> /\ form.raw_users # <<>>
        /\ \/ ~form.date_selection.tuple
           \/ /\ Len(form.date_selection.dates) = 2
              /\ form.date_selection.dates[1] <= form.date_selection.dates[2]
        /\ \E i \in Indices(form.raw_users) :
              form.raw_users[i] \notin {",", " ", "\n"}

\* a raw user text without any username: refused, nothing queried
BlankUsersRefusedReached ==
    /\ pc = "No valid usernames provided."
    /\ form.raw_users # <<>>
    /\ QueriesIssued = 0
    /\ rows = <<>>

RECURSIVE SumOver(_, _)
SumOver(seq, i) == IF i = 0 THEN 0 ELSE seq[i] + SumOver(seq, i - 1)

\* how often date d occurs in the dates of kind k that the finished
\* iterations for username u returned
Returned(u, d, k) ==
    SumOver([i \in Indices(results) |->
               IF results[i].user # u THEN 0
               ELSE Occurrences(CASE k = "created" ->
                                       results[i].created_stats.created_dates
                                  [] k = "merged" ->
                                       results[i].created_stats.merged_dates
                                  [] OTHER ->
                                       results[i].reviews_data.review_dates,
                                d)],
            Len(results))

ReturnedTotal(k) ==
    SumOver([i \in Indices(results) |->
               CASE k = "created" -> Len(results[i].created_stats.created_dates)
                 [] k = "merged" -> Len(results[i].created_stats.merged_dates)
                 [] OTHER -> Len(results[i].reviews_data.review_dates)],
            Len(results))

Days == 0..3

\* C7: the event tables hold one entry per recorded occurrence: for every
\* username, date and kind, as many entries as the queries for that username
\* returned dates of that kind, and no other entry.
EventsMatchOccurrences ==
    /\ \A i \in Indices(users) : \A d \in Days :
          /\ \A k \in {"created", "merged"} :
                Occurrences(pr_events,
                            [username |-> users[i], date |-> d, event |-> k])
                  = Returned(users[i], d, k)
          /\ Occurrences(review_events, [username |-> users[i], date |-> d])
               = Returned(users[i], d, "review")
    /\ Len(pr_events) = ReturnedTotal("created") + ReturnedTotal("merged")
    /\ Len(review_events) = ReturnedTotal("review")

\* several events of one user, date and kind, in both tables
SameDayEventsReached ==
    /\ pc = "done"
    /\ \E i \in Indices(pr_events) : Occurrences(pr_events, pr_events[i]) >= 2
    /\ \E i \in Indices(review_events) :
          Occurrences(review_events, review_events[i]) >= 2

\* two logins are equal but for the case of their letters
SameLogin(s, t) ==
    /\ Len(s) = Len(t)
    /\ \A i \in Indices(s) :
          \/ s[i] = t[i]
          \/ {s[i], t[i]} \in {{"a", "A"}, {"b", "B"}}

\* the review is by username, has a submission time, and its date is in range
Qualifies(review, username) ==
    /\ review.user # None
    /\ SameLogin(Get(review.user), username)
    /\ review.submitted_at # None
    /\ Get(review.submitted_at) >= Get(start_date) * DayParts
    /\ Get(review.submitted_at) < (Get(end_date) + 1) * DayParts

EveryRecordQualifies ==
    InReviews =>
        /\ Len(review_details) = Len(recorded)
        /\ Len(review_dates) = Len(recorded)
        /\ \A i \in Indices(recorded) :
              /\ Qualifies(recorded[i].review, user)
              /\ review_details[i].username = user
              /\ review_details[i].submitted_at
                   = Get(recorded[i].review.submitted_at)
              /\ review_dates[i] * DayParts <= review_details[i].submitted_at
              /\ review_details[i].submitted_at < (review_dates[i] + 1) * DayParts

EachReviewCountedOnce ==
    (pc \in {"primary_reviews", "fallback_reviews"} /\ rpos' = rpos + 1) =>
        IF Qualifies(Get(cur).reviews[rpos'], user)
        THEN /\ count' = count + 1
             /\ Len(review_dates') = Len(review_dates) + 1
             /\ Len(review_details') = Len(review_details) + 1
             /\ SubSeq(review_dates', 1, Len(review_dates)) = review_dates
             /\ SubSeq(review_details', 1, Len(review_details)) = review_details
        ELSE UNCHANGED <<count, review_dates, review_details>>

CountMatchesLists ==
    pc = "aggregate" =>
        /\ count = Len(review_dates)
        /\ count = Len(review_details)
        /\ \A i, j \in Indices(recorded) :
              (recorded[i].pr = recorded[j].pr /\ recorded[i].rev = recorded[j].rev)
                  => i = j

\* C10: throughout search_prs_created and at its return, prs_merged <=
\* prs_created, and merged_dates, created_dates and pr_details are no longer
\* than their counts; so every row's merge ratio is within [0, 100].
PrCountsOrdered ==
    /\ InPrQuery =>
         /\ merged_count <= created_count
         /\ Len(merged_dates) <= merged_count
         /\ Len(created_dates) <= created_count
         /\ Len(pr_details) <= created_count
    /\ \A i \in Indices(rows) :
          /\ rows[i].prs_merged <= rows[i].prs_created
          /\ 0 <= rows[i].merge_ratio /\ rows[i].merge_ratio <= 1000

\* two pull requests counted and merged, one without a merge date and one
\* whose detail access failed
PartialPrsReached ==
    /\ pc = "rev_start"
    /\ created_count = 2 /\ merged_count = 2
    /\ Len(merged_dates) = 1
    /\ Len(pr_details) = 1

====
